---------------------------- MODULE Spec2Model ----------------------------
(***************************************************************************)
(* A model of backend/internal/ai/service.go (AIService): the chat toggle  *)
(* handlers OpenAIMode and DisableOpenAIMode, the question handler         *)
(* ChatStream with the streaming client StreamAIResponse, and the          *)
(* embedding worker that main.go starts on the asynq server.               *)
(*                                                                         *)
(* Request handlers run on their own goroutines and the worker pool runs   *)
(* beside them (main.go: asynqServer.Run in a goroutine, Concurrency 10),  *)
(* with no lock anywhere in the handlers.  Every repository, queue or      *)
(* network call is therefore one atomic step here, together with the       *)
(* local code that follows it up to the next call; steps of different      *)
(* handlers and of the worker interleave freely.                           *)
(***************************************************************************)
EXTENDS Integers, Sequences, FiniteSets, TLC

(***************************************************************************)
(* Bounds of the model.                                                    *)
(***************************************************************************)
\* Requests accepted over one behaviour.
MaxCalls == 3
\* Toggle requests of the author accepted over one behaviour of the toggle
\* handlers on their own.
MaxToggles == MaxCalls + 1
\* Attempts the queue gives one embedding job before it drops it.
MaxAttempts == 2
\* Chunks the worker writes for the post's text (at least one).
NChunks == 1
\* Lines of one generation stream.
MaxLines == 3

\* Request goroutines.
Threads == {"t1", "t2"}
\* asynq.Config{Concurrency: 10} (main.go): the tasks processed at one time.
Concurrency == 10

\* Stored posts and the ids a request may name; "p0" names no stored post.
Existing == {"p1"}
PostIDs == {"p1", "p0"}
Users == {"u1", "u2"}
AuthorOf(p) == "u1"

VARIABLES
    posts,      \* PosRepo: post id -> [AIChatOpen, AIReady, AuthorID]
    chunks,     \* PosRepo: post id -> set of stored chunk+vector pairs
    queue,      \* asynq: sequence of embedding jobs waiting for a worker
    nextJob,    \* asynq: id the next enqueued job gets
    thr,        \* request goroutines: the handler each runs and where it is
    last,       \* the request that returned last, with what it returned
    wrk,        \* the tasks the worker pool processes: each a job and where it is
    calls,      \* requests accepted so far
    hist,       \* history: per post, the last DisableOpenAIMode and what followed
    strm,       \* one StreamAIResponse call on its own: body, position, onChunk calls
    rtv,        \* one retrieval of ChatStream on its own: scored chunks, context
    svc         \* CreateChat and ClassifyContent on their own: stored chats, last call

vars == <<posts, chunks, queue, nextJob, thr, last, wrk, calls, hist, strm, rtv, svc>>
dbvars == <<posts, chunks, queue, nextJob>>
mainvars == <<dbvars, thr, last, wrk, calls, hist>>
streamvars == <<strm>>
sidevars == <<rtv, svc>>

(***************************************************************************)
(* Values.                                                                 *)
(***************************************************************************)
\* What GetByID returns for an id with no post: a nil *models.Post.
NoPost == [exists |-> FALSE, AIChatOpen |-> FALSE, AIReady |-> FALSE, AuthorID |-> "none"]

\* A handler's return value: (bool, error), error "nil" for none.
Ret(b, e) == [ok |-> b, err |-> e]
NoRet == Ret(FALSE, "pending")

IdleThread ==
    [pc |-> "idle", op |-> "none", post |-> "none", user |-> "none",
     payload |-> "none", snap |-> NoPost, res |-> NoRet, log |-> <<>>,
     ctx |-> "none", body |-> <<>>, frags |-> <<>>, pre |-> {}, epoch |-> 0]

\* Per post: n counts the DisableOpenAIMode calls that returned after persisting
\* the flags, pre holds the chunks stored when the last of them began, and
\* phase tells whether an OpenAIMode that began after it has enqueued a job.
NoHist == [phase |-> "none", pre |-> {}, n |-> 0]

(***************************************************************************)
(* The collaborators: PosRepo, the task queue.                             *)
(***************************************************************************)
\* PosRepo.GetByID: the stored post, or nil for an id that names none.
GetByID(p) ==
    IF p \in DOMAIN posts
    THEN [exists |-> TRUE, AIChatOpen |-> posts[p].AIChatOpen,
          AIReady |-> posts[p].AIReady, AuthorID |-> posts[p].AuthorID]
    ELSE NoPost

\* PosRepo.Update: stores the flags of the handler's copy of the post.
RepoUpdate(p, post) ==
    [posts EXCEPT ![p] = [AIChatOpen |-> post.AIChatOpen, AIReady |-> post.AIReady,
                          AuthorID |-> post.AuthorID]]

\* PosRepo.DeleteEmbeddingsByPostID: removes every chunk of the post.
RepoDeleteEmbeddings(p) == [chunks EXCEPT ![p] = {}]

\* TaskEnqueuer.EnqueuePostEmbedding: one job for the post, at the queue's end.
EnqueuePostEmbedding(p, u) ==
    Append(queue, [id |-> nextJob, post |-> p, user |-> u, attempt |-> 0])

\* The calls that may return an error, and the outcomes of one call.
Outcomes == {"nil", "err"}

(***************************************************************************)
(* Request goroutines.                                                     *)
(***************************************************************************)
Finish(r, ret) == [r EXCEPT !.pc = "done", !.res = ret]

\* The goroutine goes on as r, or, when r has returned, ends: its request is
\* then the one that returned last.
Move(t, r) ==
    /\ thr' = [thr EXCEPT ![t] = IF r.pc = "done" THEN IdleThread ELSE r]
    /\ last' = IF r.pc = "done" THEN r ELSE last
Logged(r, call) == [r EXCEPT !.log = Append(r.log, call)]

\* The prompt of an Ask: a JSON object with a question, one without, or no JSON.
Payloads == {"question", "malformed"}

\* The request op(p, u), with prompt pl when it is an Ask, gets goroutine t.
Request(t, op, p, u, pl) ==
    /\ thr[t].pc = "idle"
    /\ thr' = [thr EXCEPT ![t] =
                 [IdleThread EXCEPT !.pc = "get",
                                    !.op = op, !.post = p,
                                    !.user = IF op = "ask" THEN "any" ELSE u,
                                    !.payload = pl]]
    /\ calls' = calls + 1
    /\ UNCHANGED <<dbvars, last, wrk, hist, streamvars, sidevars>>

\* A request arrives and gets a goroutine.
Call(t) ==
    /\ calls < MaxCalls
    /\ \E op \in {"enable", "disable", "ask"}, p \in PostIDs, u \in Users :
         \E pl \in (IF op = "ask" THEN Payloads ELSE {"none"}) :
           Request(t, op, p, u, pl)

(***************************************************************************)
(* OpenAIMode (service.go 33-56).                                          *)
(***************************************************************************)
\* OpenAIMode without the author check of lines 46-48.
OpenAIModeDecide_NoAuthorCheck(post, user) ==
    IF ~post.exists THEN "noop"
    ELSE IF post.AIChatOpen THEN "noop"
    ELSE "enqueue"

\* OpenAIMode without the already-open check of lines 42-44.
OpenAIModeDecide_NoOpenCheck(post, user) ==
    IF ~post.exists THEN "noop"
    ELSE IF post.AuthorID # user THEN "noop"
    ELSE "enqueue"

\* Lines 38-48: what the handler does with the post it fetched.
OpenAIModeDecide(post, user) ==
    IF ~post.exists THEN "noop"
    ELSE IF post.AIChatOpen THEN "noop"
    ELSE IF post.AuthorID # user THEN "noop"
    ELSE "enqueue"

\* Lines 34-48: GetByID and the three checks.
OpenGet(t) ==
    LET r == Logged(thr[t], "GetByID") IN
    /\ thr[t].pc = "get" /\ thr[t].op = "enable"
    /\ \E e \in Outcomes :
         Move(t,
                   IF e = "err" THEN Finish(r, Ret(FALSE, "GetByID"))
                   ELSE LET post == GetByID(r.post)
                            s == [r EXCEPT !.snap = post]
                        IN IF OpenAIModeDecide(post, r.user) = "enqueue"
                           THEN [s EXCEPT !.pc = "enqueue", !.epoch = hist[r.post].n]
                           ELSE Finish(s, Ret(FALSE, "nil")))
    /\ UNCHANGED <<dbvars, wrk, calls, hist, streamvars, sidevars>>

\* OpenAIMode dropping the enqueue error of lines 51-53.
OpenAIModeReturn_IgnoreErr(e) == Ret(TRUE, "nil")

\* Lines 50-55: the result of EnqueuePostEmbedding decides the return value.
OpenAIModeReturn(e) == IF e = "err" THEN Ret(FALSE, "Enqueue") ELSE Ret(TRUE, "nil")

\* Lines 50-55: enqueue the embedding job.
OpenEnqueue(t) ==
    LET r == Logged(thr[t], "Enqueue") IN
    /\ thr[t].pc = "enqueue"
    /\ \E e \in Outcomes :
         /\ Move(t, Finish(r, OpenAIModeReturn(e)))
         /\ IF e = "err"
            THEN UNCHANGED <<queue, nextJob, hist>>
            ELSE /\ queue' = EnqueuePostEmbedding(r.post, r.user)
                 /\ nextJob' = nextJob + 1
                 /\ hist' = [hist EXCEPT ![r.post].phase =
                               IF @ = "disabled" /\ r.epoch = hist[r.post].n
                               THEN "reenabled" ELSE @]
    /\ UNCHANGED <<posts, chunks, wrk, calls, streamvars, sidevars>>

(***************************************************************************)
(* DisableOpenAIMode (service.go 59-89).                                   *)
(***************************************************************************)
\* Lines 64-74: what the handler does with the post it fetched.
DisableDecide(post, user) ==
    IF ~post.exists THEN "noop"
    ELSE IF ~post.AIChatOpen THEN "noop"
    ELSE IF post.AuthorID # user THEN "noop"
    ELSE "update"

\* Lines 60-74: GetByID and the three checks.
DisableGet(t) ==
    LET r == Logged(thr[t], "GetByID") IN
    /\ thr[t].pc = "get" /\ thr[t].op = "disable"
    /\ \E e \in Outcomes :
         Move(t,
                   IF e = "err" THEN Finish(r, Ret(FALSE, "GetByID"))
                   ELSE LET post == GetByID(r.post)
                            s == [r EXCEPT !.snap = post]
                        IN IF DisableDecide(post, r.user) = "update"
                           THEN [s EXCEPT !.pc = "update", !.pre = chunks[r.post]]
                           ELSE Finish(s, Ret(FALSE, "nil")))
    /\ UNCHANGED <<dbvars, wrk, calls, hist, streamvars, sidevars>>

\* Lines 76-77: both flags of the handler's copy are cleared.
DisableFlags(post) == [post EXCEPT !.AIChatOpen = FALSE, !.AIReady = FALSE]

\* DisableOpenAIMode going on to the deletion whatever Update returned.
DisableAfterUpdate_IgnoreErr(e) == "delete"

\* Lines 78-81: where the handler goes after Update returned e.
DisableAfterUpdate(e) == IF e = "err" THEN "done" ELSE "delete"

\* Lines 76-81: clear the flags and persist the post.
DisableUpdate(t) ==
    LET r == Logged(thr[t], "Update") IN
    /\ thr[t].pc = "update"
    /\ \E e \in Outcomes :
         /\ Move(t,
                      IF DisableAfterUpdate(e) = "done"
                      THEN Finish(r, Ret(FALSE, "Update"))
                      ELSE [r EXCEPT !.pc = "delete", !.snap = DisableFlags(r.snap)])
         /\ posts' = IF e = "err" THEN posts
                     ELSE RepoUpdate(r.post, DisableFlags(r.snap))
    /\ UNCHANGED <<chunks, queue, nextJob, wrk, calls, hist, streamvars, sidevars>>

\* DisableOpenAIMode swallowing the deletion's error.
DisableReturn_Swallow(e) == Ret(TRUE, "nil")

\* Lines 84-88: the result of DeleteEmbeddingsByPostID decides the return value.
DisableReturn(e) ==
    IF e = "err" THEN Ret(FALSE, "DeleteEmbeddings") ELSE Ret(TRUE, "nil")

\* Lines 83-88: delete the post's chunks.
DisableDelete(t) ==
    LET r == Logged(thr[t], "DeleteEmbeddings") IN
    /\ thr[t].pc = "delete"
    /\ \E e \in Outcomes :
         /\ Move(t, Finish(r, DisableReturn(e)))
         /\ chunks' = IF e = "err" THEN chunks ELSE RepoDeleteEmbeddings(r.post)
    /\ hist' = [hist EXCEPT ![r.post] =
                   [phase |-> "disabled", pre |-> r.pre, n |-> @.n + 1]]
    /\ UNCHANGED <<posts, queue, nextJob, wrk, calls, streamvars, sidevars>>

(***************************************************************************)
(* The embedding worker (spec 4.2), on the asynq server of main.go.        *)
(***************************************************************************)
\* The ids the jobs of one behaviour get: every accepted request enqueues at
\* most one job.
JobIDs == 1..MaxToggles

\* While fewer than Concurrency tasks are processed, the pool takes the job
\* at the head of the queue.
WorkerDequeue ==
    /\ queue # <<>>
    /\ Cardinality(wrk) < Concurrency
    /\ wrk' = wrk \cup {[pc |-> "embed", job |-> Head(queue)]}
    /\ queue' = Tail(queue)
    /\ UNCHANGED <<posts, chunks, nextJob, thr, last, calls, hist, streamvars, sidevars>>

\* A queue that retries a failed job without counting its attempts.
AfterFailure_RetryForever(q, j) == Append(q, j)

\* The queue after job j has failed once more: j waits for its next attempt,
\* or is dropped when its attempts are used up.
AfterFailure(q, j) ==
    IF j.attempt + 1 < MaxAttempts THEN Append(q, [j EXCEPT !.attempt = @ + 1]) ELSE q

\* The task k of the pool goes on as the tasks ks (one task, or none).
Proceed(k, ks) == wrk' = (wrk \ {k}) \cup ks

\* The embedding calls of job id: all succeed, or one fails and the job is
\* retried until its attempts are used up, and then dropped.
WorkerEmbed(id) ==
    /\ \E k \in wrk :
         /\ k.job.id = id /\ k.pc = "embed"
         /\ \E e \in Outcomes :
              IF e = "nil"
              THEN /\ Proceed(k, {[k EXCEPT !.pc = "write"]})
                   /\ UNCHANGED queue
              ELSE /\ Proceed(k, {})
                   /\ queue' = AfterFailure(queue, k.job)
    /\ UNCHANGED <<posts, chunks, nextJob, thr, last, calls, hist, streamvars, sidevars>>

\* The text of the post's chunk i: never empty (spec 4.2).
ChunkContent(i) == <<ToString(i)>>

\* The chunk+vector pairs the job writes.
JobChunks(j) == {[job |-> j.id, idx |-> i, Content |-> ChunkContent(i)] : i \in 1..NChunks}

\* ReplaceChunks: the post's chunks are replaced, as a set, by the job's.
WorkerWrite(id) ==
    /\ \E k \in wrk :
         /\ k.job.id = id /\ k.pc = "write"
         /\ chunks' = [chunks EXCEPT ![k.job.post] = JobChunks(k.job)]
         /\ Proceed(k, {[k EXCEPT !.pc = "flip"]})
    /\ UNCHANGED <<posts, queue, nextJob, thr, last, calls, hist, streamvars, sidevars>>

\* On success the worker flips the post's flags: the post becomes READY.
WorkerFlip(id) ==
    /\ \E k \in wrk :
         /\ k.job.id = id /\ k.pc = "flip"
         /\ posts' = [posts EXCEPT ![k.job.post].AIChatOpen = TRUE,
                                   ![k.job.post].AIReady = TRUE]
         /\ Proceed(k, {})
    /\ UNCHANGED <<chunks, queue, nextJob, thr, last, calls, hist, streamvars, sidevars>>

(***************************************************************************)
(* StreamAIResponse (service.go 148-200): the read loop.                   *)
(*                                                                         *)
(* A line is the sequence of bytes ReadBytes returns, the marker and the   *)
(* white space byte by byte and the payload's text as one unit.            *)
(***************************************************************************)
DataMarker == <<"d", "a", "t", "a", ":", " ">>
DoneSentinel == <<"[DONE]">>

\* bytes.HasPrefix.
HasPrefix(line, pre) ==
    /\ Len(line) >= Len(pre)
    /\ SubSeq(line, 1, Len(pre)) = pre

\* unicode.IsSpace on the bytes that occur.
IsSpace(c) == c \in {" ", "\t", "\r", "\n"}

RECURSIVE TrimLeft(_)
TrimLeft(b) == IF b # <<>> /\ IsSpace(Head(b)) THEN TrimLeft(Tail(b)) ELSE b

RECURSIVE TrimRight(_)
TrimRight(b) ==
    IF b # <<>> /\ IsSpace(b[Len(b)]) THEN TrimRight(SubSeq(b, 1, Len(b) - 1)) ELSE b

\* bytes.TrimSpace.
TrimSpace(b) == TrimRight(TrimLeft(b))

\* Values of Go's interface{} after json.Unmarshal, as far as the loop looks.
GoAbsent == [t |-> "absent", s |-> "", content |-> "absent", text |-> ""]
GoString(x) == [t |-> "string", s |-> x, content |-> "absent", text |-> ""]
GoNumber == [t |-> "number", s |-> "", content |-> "absent", text |-> ""]
\* A JSON object with a "content" member that is a string, a number, or absent.
GoMap(kind, x) == [t |-> "map", s |-> "", content |-> kind, text |-> x]

\* json.Unmarshal(raw, &chunk) with chunk a map[string]interface{}, on the
\* payload texts of the model: err, and chunk["message"] when there is none.
Decoded(m) == [err |-> FALSE, message |-> m]
DecodeError == [err |-> TRUE, message |-> GoAbsent]

Unmarshal(raw) ==
    IF Len(raw) # 1 THEN DecodeError
    ELSE CASE raw[1] = "{\"message\":{\"content\":\"Hi\"}}" -> Decoded(GoMap("string", "Hi"))
           [] raw[1] = "{\"message\":{\"content\":\"\"}}" -> Decoded(GoMap("string", ""))
           [] raw[1] = "{\"message\":{\"content\":\"a<b\"}}" -> Decoded(GoMap("string", "a<b"))
           [] raw[1] = "{\"message\":{\"content\":7}}" -> Decoded(GoMap("number", ""))
           [] raw[1] = "{\"message\":\"Hi\"}" -> Decoded(GoString("Hi"))
           [] raw[1] = "{\"response\":\"Hi\"}" -> Decoded(GoAbsent)
           [] raw[1] = "null" -> Decoded(GoAbsent)
           [] raw[1] = "[1]" -> DecodeError
           [] raw[1] = "{\"message\":" -> DecodeError
           [] OTHER -> DecodeError

\* json.Marshal(map[string]string{"text": content}): Go escapes <, > and &.
MarshalText(content) ==
    CASE content = "Hi" -> "{\"text\":\"Hi\"}"
      [] content = "" -> "{\"text\":\"\"}"
      [] content = "a<b" -> "{\"text\":\"a\\u003cb\"}"
      [] OTHER -> "{\"text\":?}"

\* The loop body without the TrimSpace of line 179.
ProcessLine_NoTrim(line, out) ==
    IF HasPrefix(line, DataMarker)
    THEN LET raw == SubSeq(line, Len(DataMarker) + 1, Len(line)) IN
         IF Len(raw) = 0 \/ raw = DoneSentinel THEN out
         ELSE LET chunk == Unmarshal(raw) IN
              IF chunk.err THEN out
              ELSE IF chunk.message.t = "map" /\ chunk.message.content = "string"
                   THEN Append(out, MarshalText(chunk.message.text))
                   ELSE out
    ELSE out

\* Lines 178-197: one pass of the loop body over a line read without error;
\* out is the sequence of onChunk arguments so far.
ProcessLine(line, out) ==
    IF HasPrefix(line, DataMarker)
    THEN LET raw == TrimSpace(SubSeq(line, Len(DataMarker) + 1, Len(line))) IN
         IF Len(raw) = 0 \/ raw = DoneSentinel THEN out
         ELSE LET chunk == Unmarshal(raw) IN
              IF chunk.err THEN out
              ELSE IF chunk.message.t = "map" /\ chunk.message.content = "string"
                   THEN Append(out, MarshalText(chunk.message.text))
                   ELSE out
    ELSE out

(***************************************************************************)
(* Response bodies of the generation endpoint.  Each line is given with    *)
(* the onChunk argument it stands for: the JSON encoding of its text when  *)
(* it is a marker line whose payload is a JSON object holding a message    *)
(* object with a text, and "none" otherwise.                               *)
(***************************************************************************)
NL == <<"\n">>
Line(b, f) == [bytes |-> b, frag |-> f]

Lines ==
    { Line(DataMarker \o <<"{\"message\":{\"content\":\"Hi\"}}">> \o NL, "{\"text\":\"Hi\"}"),
      Line(DataMarker \o <<"{\"message\":{\"content\":\"\"}}">> \o NL, "{\"text\":\"\"}"),
      Line(DataMarker \o <<" ", "{\"message\":{\"content\":\"a<b\"}}", "\r">> \o NL,
           "{\"text\":\"a\\u003cb\"}"),
      Line(DataMarker \o DoneSentinel \o NL, "none"),
      Line(DataMarker \o NL, "none"),
      Line(DataMarker \o <<"{\"message\":">> \o NL, "none"),
      Line(DataMarker \o <<"[1]">> \o NL, "none"),
      Line(DataMarker \o <<"null">> \o NL, "none"),
      Line(DataMarker \o <<"{\"message\":\"Hi\"}">> \o NL, "none"),
      Line(DataMarker \o <<"{\"message\":{\"content\":7}}">> \o NL, "none"),
      Line(<<"{\"message\":{\"content\":\"Hi\"}}">> \o NL, "none"),
      Line(<<"d", "a", "t", "a", ":", "{\"message\":{\"content\":\"Hi\"}}">> \o NL, "none"),
      Line(NL, "none") }

\* What ReadBytes returns together with its error: nothing, or the bytes of a
\* last line whose newline never came.
Tails == { <<>>, DataMarker \o <<"{\"message\":{\"content\":\"Hi\"}}">> }

RECURSIVE SeqsUpTo(_, _)
SeqsUpTo(S, n) ==
    IF n = 0 THEN {<<>>}
    ELSE LET shorter == SeqsUpTo(S, n - 1) IN
         shorter \cup {Append(q, x) : q \in shorter, x \in S}

\* cancelled: the caller of StreamAIResponse has given up on the answer.
StreamOff ==
    [pc |-> "off", lines |-> <<>>, tail |-> <<>>, read |-> <<>>, out |-> <<>>,
     ret |-> "pending", cancelled |-> FALSE]

\* The loop's break turned into the read error.
LoopReturn_ReadError == "ReadBytes"

\* Line 199: after the loop, whatever ended it, StreamAIResponse returns nil.
LoopReturn == "nil"

\* Line 161: http.Post; its error is returned.
StreamPost ==
    /\ strm.pc = "post"
    /\ \E e \in Outcomes :
         strm' = IF e = "err" THEN [strm EXCEPT !.pc = "done", !.ret = "http.Post"]
                 ELSE [strm EXCEPT !.pc = "read"]
    /\ UNCHANGED <<mainvars, sidevars>>

\* Lines 171-197: ReadBytes returns a line and no error; the loop body runs.
StreamReadLine ==
    /\ strm.pc = "read"
    /\ strm.lines # <<>>
    /\ strm' = [strm EXCEPT !.lines = Tail(@),
                            !.read = Append(@, Head(strm.lines)),
                            !.out = ProcessLine(Head(strm.lines).bytes, @)]
    /\ UNCHANGED <<mainvars, sidevars>>

\* Lines 171-176 and 199: ReadBytes returns an error (the end of the body, or
\* a failed read) with the bytes it has; the loop breaks and nil is returned.
StreamReadEnd ==
    /\ strm.pc = "read"
    /\ strm.lines = <<>>
    /\ strm' = [strm EXCEPT !.pc = "done", !.ret = LoopReturn]
    /\ UNCHANGED <<mainvars, sidevars>>

\* The caller gives up while the call is in flight.  StreamAIResponse takes
\* no context and no channel (line 148) and http.Post carries none (line
\* 161), so nothing in the loop reads the signal: it is recorded and no more.
StreamCancel ==
    /\ strm.pc = "read"
    /\ ~strm.cancelled
    /\ strm' = [strm EXCEPT !.cancelled = TRUE]
    /\ UNCHANGED <<mainvars, sidevars>>

(***************************************************************************)
(* ChatStream (service.go 95-146).                                         *)
(***************************************************************************)
\* ChatStream without the AIChatOpen check of line 102.
ChatStreamGate_NoOpenCheck(e, post) == e = "err" \/ ~post.exists

\* Line 102: the check that refuses the question.
ChatStreamGate(e, post) == e = "err" \/ ~post.exists \/ ~post.AIChatOpen

\* Lines 96-104: decode the prompt, fetch the post, check that chat is open.
AskGet(t) ==
    LET r == Logged(thr[t], "GetByID") IN
    /\ thr[t].pc = "get" /\ thr[t].op = "ask"
    /\ IF thr[t].payload = "malformed"
       THEN Move(t, Finish(thr[t], Ret(FALSE, "Unmarshal")))
       ELSE \E e \in Outcomes :
              LET post == IF e = "err" THEN NoPost ELSE GetByID(r.post)
                  s == [r EXCEPT !.snap = post]
              IN Move(t,
                           IF ChatStreamGate(e, post)
                           THEN Finish(s, Ret(FALSE, "post not found or AI not enabled"))
                           ELSE [s EXCEPT !.pc = "embed"])
    /\ UNCHANGED <<dbvars, wrk, calls, hist, streamvars, sidevars>>

\* Lines 106-109: embed the question.
AskEmbed(t) ==
    LET r == Logged(thr[t], "GetEmbedding") IN
    /\ thr[t].pc = "embed"
    /\ \E e \in Outcomes :
         Move(t,
                   IF e = "err" THEN Finish(r, Ret(FALSE, "GetEmbedding"))
                   ELSE [r EXCEPT !.pc = "retrieve"])
    /\ UNCHANGED <<dbvars, wrk, calls, hist, streamvars, sidevars>>

\* Line 135: the number of chunks the context is built from.
TopK == 3

\* Lines 134-137: how many entries of the sorted slice the loop takes.
TopCount(n) == IF n < TopK THEN n ELSE TopK

\* The separator of line 139 and the sentence of line 141.  A string is the
\* sequence of its units, "" the empty sequence.
Separator == <<"\n\n">>
FallbackContext ==
    <<"There is no relevant information from the document. Answer the question as best as you can or inform the user you cannot answer.">>

\* strings.Join (line 139).
RECURSIVE Join(_, _)
Join(texts, sep) ==
    IF texts = <<>> THEN <<>>
    ELSE IF Len(texts) = 1 THEN texts[1]
    ELSE texts[1] \o sep \o Join(Tail(texts), sep)

\* ChatStream with the fallback of lines 140-142 left out.
FullContext_NoFallback(top) == Join([i \in 1..Len(top) |-> top[i].Text], Separator)

\* Lines 134-142: the context built from the head of the sorted slice.
FullContext(top) ==
    LET topChunks == [i \in 1..Len(top) |-> top[i].Text]
        fullContext == Join(topChunks, Separator) IN
    IF fullContext = <<>> THEN FallbackContext ELSE fullContext

\* Lines 116-142 on the stored chunks cs, whatever their scores: how many
\* chunks the context is built from, and whether line 140 finds it empty and
\* puts the fallback sentence in its place.
Context(cs) ==
    LET k == TopCount(Cardinality(cs))
        some == CHOOSE q \in [1..k -> cs] : \A i, j \in 1..k : i # j => q[i] # q[j]
        top == [i \in 1..k |-> [Text |-> some[i].Content, Score |-> 0]] IN
    [n |-> k, fallback |-> FullContext(top) = FallbackContext]

\* Lines 111-142: load the post's chunks and build the context.
AskRetrieve(t) ==
    LET r == Logged(thr[t], "GetEmbeddingByPostID") IN
    /\ thr[t].pc = "retrieve"
    /\ \E e \in Outcomes :
         Move(t,
                   IF e = "err" THEN Finish(r, Ret(FALSE, "GetEmbeddingByPostID"))
                   ELSE [r EXCEPT !.pc = "generate", !.ctx = Context(chunks[r.post])])
    /\ UNCHANGED <<dbvars, wrk, calls, hist, streamvars, sidevars>>

\* The response bodies an Ask of the model may get.
AskBodies ==
    { <<>>,
      << DataMarker \o <<"{\"message\":{\"content\":\"Hi\"}}">> \o NL,
         DataMarker \o <<"{\"message\":">> \o NL,
         DataMarker \o DoneSentinel \o NL >> }

\* Lines 145 and 161-164: StreamAIResponse posts the request; the body that
\* answers is one of AskBodies.
AskGenerate(t) ==
    LET r == Logged(thr[t], "StreamAIResponse") IN
    /\ thr[t].pc = "generate"
    /\ \E e \in Outcomes :
         IF e = "err"
         THEN Move(t, Finish(r, Ret(FALSE, "http.Post")))
         ELSE \E body \in AskBodies :
                Move(t, [r EXCEPT !.pc = "read", !.body = body])
    /\ UNCHANGED <<dbvars, wrk, calls, hist, streamvars, sidevars>>

\* Lines 171-197: ReadBytes returns the next line of the body; the loop body
\* runs, with its onChunk call when the line carries a fragment.
AskReadLine(t) ==
    /\ thr[t].pc = "read"
    /\ thr[t].body # <<>>
    /\ Move(t, [thr[t] EXCEPT !.body = Tail(@),
                              !.frags = ProcessLine(Head(thr[t].body), @)])
    /\ UNCHANGED <<dbvars, wrk, calls, hist, streamvars, sidevars>>

\* Lines 171-176 and 199: ReadBytes returns its error at the end of the body;
\* the loop breaks and ChatStream returns what StreamAIResponse returns.
AskReadEnd(t) ==
    /\ thr[t].pc = "read"
    /\ thr[t].body = <<>>
    /\ Move(t, Finish(thr[t], Ret(TRUE, LoopReturn)))
    /\ UNCHANGED <<dbvars, wrk, calls, hist, streamvars, sidevars>>

(***************************************************************************)
(* ChatStream's retrieval on its own (service.go 116-142): the scored      *)
(* chunks are sorted, the first three give the context.                    *)
(*                                                                         *)
(* The text of the chunk stored at position i is one unit, the worker       *)
(* storing no empty chunk (spec 4.2).                                      *)
(***************************************************************************)
\* Chunks one post has in a retrieval.
MaxChunks == 7
\* Values utils.CosineSimilarity gives, as ranks.
Scores == {0, 1, 2}

\* Lines 116-127: ScoredChunk for the embedding stored at position i.
ScoredChunk(i, score) == [Text |-> <<ToString(i)>>, Score |-> score]

\* Line 131: the less function handed to sort.Slice.
Less(x, y) == x.Score > y.Score

Swap(q, i, j) == [q EXCEPT ![i] = q[j], ![j] = q[i]]

\* sort: the inner loop of insertionSort, element j sinks while it is less.
RECURSIVE Sink(_, _)
Sink(q, j) ==
    IF j > 1 /\ Less(q[j], q[j - 1]) THEN Sink(Swap(q, j, j - 1), j - 1) ELSE q

RECURSIVE InsertionSort(_, _)
InsertionSort(q, i) ==
    IF i > Len(q) THEN q ELSE InsertionSort(Sink(q, i), i + 1)

\* Slices shorter than this are sorted by insertion sort alone in every Go
\* release: the quickSort of the older releases runs a gap-6 pass over
\* slices of 7 to 12 elements before it, pdqsort partitions above 12.
UnstableFrom == 7

\* Lines 130-137: the entries the loop finds at the head of the slice after
\* sort.Slice.  sort.Slice promises an order by less and no stability: a
\* short slice is insertion-sorted, a longer one may come out in any order
\* in which no entry is less than one before it.
SortedHeads(scored) ==
    LET n == Len(scored)
        k == TopCount(n) IN
    IF n < UnstableFrom
    THEN {SubSeq(InsertionSort(scored, 2), 1, k)}
    ELSE {[i \in 1..k |-> scored[h[i]]] :
            h \in {g \in [1..k -> 1..n] :
                     /\ \A i, j \in 1..k : i < j =>
                          g[i] # g[j] /\ ~Less(scored[g[j]], scored[g[i]])
                     /\ \A m \in 1..n :
                          (\A i \in 1..k : g[i] # m) => ~Less(scored[m], scored[g[k]])}}

RetrieveOff == [pc |-> "off", scored |-> <<>>, top |-> <<>>, ctx |-> <<>>]

\* Lines 130-142 on the scored chunks of one question.
Retrieve ==
    /\ rtv.pc = "scored"
    /\ \E top \in SortedHeads(rtv.scored) :
         rtv' = [rtv EXCEPT !.pc = "done", !.top = top, !.ctx = FullContext(top)]
    /\ UNCHANGED <<mainvars, streamvars, svc>>

(***************************************************************************)
(* CreateChat (service.go 222-237) and ClassifyContent (service.go         *)
(* 240-252), called in any order on one service.                           *)
(***************************************************************************)
\* Rows AIRepo.CreateChat is asked to store over one behaviour.
MaxChats == 2

\* uuid.Nil, and the other values of the fields CreateChat looks at.
UuidNil == "00000000-0000-0000-0000-000000000000"
NilChat == [isNil |-> TRUE, UserID |-> UuidNil, PostID |-> UuidNil, Prompt |-> "", Response |-> ""]
Chats ==
    {NilChat} \cup
    [isNil : {FALSE}, UserID : {UuidNil, "u1", "u2"}, PostID : {UuidNil, "p1"},
     Prompt : {"", "q"}, Response : {"", "a"}]

\* CreateChat with the check of lines 232-234 on the prompt alone.
CreateChatCheck_PromptOnly(chat) ==
    IF chat.isNil THEN "chat cannot be nil"
    ELSE IF chat.UserID = UuidNil \/ chat.PostID = UuidNil
         THEN "chat must have UserID and PostID"
    ELSE IF chat.Prompt = ""
         THEN "chat must have Prompt and Response"
    ELSE "nil"

\* Lines 224-234: the error CreateChat returns before it calls the
\* repository, "nil" when it goes on to call it.
CreateChatCheck(chat) ==
    IF chat.isNil THEN "chat cannot be nil"
    ELSE IF chat.UserID = UuidNil \/ chat.PostID = UuidNil
         THEN "chat must have UserID and PostID"
    ELSE IF chat.Prompt = "" \/ chat.Response = ""
         THEN "chat must have Prompt and Response"
    ELSE "nil"

\* The classifier's label for text it cannot place, and the labels it has.
IntentUnknown == "unknown"
Intents == {IntentUnknown, "greeting", "question"}
Messages == {"", "hello", "what is this post about?"}

\* ClassifyContent that hands on whatever label the classifier gives.
ClassifyResult_PassUnknown(message, messageType) ==
    IF message = "" THEN [label |-> "", err |-> "message cannot be empty"]
    ELSE [label |-> messageType, err |-> "nil"]

\* Lines 241-251: what ClassifyContent returns for a message the classifier
\* labels messageType.
ClassifyResult(message, messageType) ==
    IF message = "" THEN [label |-> "", err |-> "message cannot be empty"]
    ELSE IF messageType = IntentUnknown
         THEN [label |-> "", err |-> "unknown message type"]
    ELSE [label |-> messageType, err |-> "nil"]

NoCall == [op |-> "none", chat |-> NilChat, message |-> "", intent |-> IntentUnknown,
           classified |-> FALSE, label |-> "", err |-> "nil"]

\* saved: the rows of the chat table; repo: the chats AIRepo.CreateChat was
\* called with; call: the last call of the service and what it returned.
ServiceOff == [saved |-> <<>>, repo |-> <<>>, call |-> NoCall]

\* Lines 222-237: one CreateChat call; e is the outcome of the repository's
\* insert when the call gets that far.
CreateChat ==
    /\ Len(svc.repo) < MaxChats
    /\ \E chat \in Chats, e \in Outcomes :
         LET failure == CreateChatCheck(chat)
             call == [NoCall EXCEPT !.op = "CreateChat", !.chat = chat] IN
         IF failure # "nil"
         THEN svc' = [svc EXCEPT !.call = [call EXCEPT !.err = failure]]
         ELSE svc' = [saved |-> IF e = "nil" THEN Append(svc.saved, chat) ELSE svc.saved,
                      repo |-> Append(svc.repo, chat),
                      call |-> [call EXCEPT !.err = IF e = "nil" THEN "nil" ELSE "AIRepo.CreateChat"]]
    /\ UNCHANGED <<mainvars, streamvars, rtv>>

\* Lines 240-252: one ClassifyContent call; intent is the label
\* IntentClassifier gives the message when it is asked.
ClassifyContent ==
    /\ \E message \in Messages, intent \in Intents :
         LET res == ClassifyResult(message, intent) IN
         svc' = [svc EXCEPT !.call = [NoCall EXCEPT !.op = "ClassifyContent",
                                                    !.message = message,
                                                    !.intent = intent,
                                                    !.classified = message # "",
                                                    !.label = res.label,
                                                    !.err = res.err]]
    /\ UNCHANGED <<mainvars, streamvars, rtv>>

(***************************************************************************)
(* Specifications.                                                         *)
(***************************************************************************)
InitBase ==
    /\ posts = [p \in Existing |->
                  [AIChatOpen |-> FALSE, AIReady |-> FALSE, AuthorID |-> AuthorOf(p)]]
    /\ chunks = [p \in Existing |-> {}]
    /\ queue = <<>>
    /\ nextJob = 1
    /\ thr = [t \in Threads |-> IdleThread]
    /\ last = IdleThread
    /\ wrk = {}
    /\ calls = 0
    /\ hist = [p \in Existing |-> NoHist]

\* The parts of the service that a specification leaves out stay as they are.
StreamIdle == strm = StreamOff
RetrieveIdle == rtv = RetrieveOff
ServiceIdle == svc = ServiceOff

Init == InitBase /\ StreamIdle /\ RetrieveIdle /\ ServiceIdle

Next ==
    \/ \E t \in Threads :
         \/ Call(t)
         \/ OpenGet(t)
         \/ OpenEnqueue(t)
         \/ DisableGet(t)
         \/ DisableUpdate(t)
         \/ DisableDelete(t)
         \/ AskGet(t)
         \/ AskEmbed(t)
         \/ AskRetrieve(t)
         \/ AskGenerate(t)
         \/ AskReadLine(t)
         \/ AskReadEnd(t)
    \/ WorkerDequeue
    \/ \E id \in JobIDs :
         \/ WorkerEmbed(id)
         \/ WorkerWrite(id)
         \/ WorkerFlip(id)

Spec == Init /\ [][Next]_vars

\* One StreamAIResponse call, on every response body of up to MaxLines lines.
StreamInit ==
    /\ InitBase /\ RetrieveIdle /\ ServiceIdle
    /\ \E ls \in SeqsUpTo(Lines, MaxLines), tl \in Tails :
         strm = [StreamOff EXCEPT !.pc = "post", !.lines = ls, !.tail = tl]

StreamNext == StreamPost \/ StreamReadLine \/ StreamReadEnd \/ StreamCancel

StreamSpec == StreamInit /\ [][StreamNext]_vars

\* One retrieval, on every list of up to MaxChunks scored chunks.
RetrieveInit ==
    /\ InitBase /\ StreamIdle /\ ServiceIdle
    /\ \E n \in 0..MaxChunks :
         \E sc \in [1..n -> Scores] :
           rtv = [RetrieveOff EXCEPT !.pc = "scored",
                                     !.scored = [i \in 1..n |-> ScoredChunk(i, sc[i])]]

RetrieveNext == Retrieve

RetrieveSpec == RetrieveInit /\ [][RetrieveNext]_vars

\* CreateChat and ClassifyContent calls in any order.
ServiceInit == InitBase /\ StreamIdle /\ RetrieveIdle /\ ServiceIdle

ServiceNext == CreateChat \/ ClassifyContent

ServiceSpec == ServiceInit /\ [][ServiceNext]_vars

\* A toggle request of a stored post's author arrives, one of at most max:
\* OpenAIMode or DisableOpenAIMode.
ToggleCall(t, max) ==
    /\ calls < max
    /\ \E op \in {"enable", "disable"}, p \in Existing :
         Request(t, op, p, AuthorOf(p), "none")

\* The toggle handlers and the worker pool.  ChatStream is left out: it
\* writes neither posts nor chunks nor the queue; so are the requests that
\* name no stored post or come from another user, which return at the lookup.
ToggleNext(max) ==
    \/ \E t \in Threads :
         \/ ToggleCall(t, max)
         \/ OpenGet(t)
         \/ OpenEnqueue(t)
         \/ DisableGet(t)
         \/ DisableUpdate(t)
         \/ DisableDelete(t)
    \/ WorkerDequeue
    \/ \E id \in JobIDs :
         \/ WorkerEmbed(id)
         \/ WorkerWrite(id)
         \/ WorkerFlip(id)

ToggleSpec == Init /\ [][ToggleNext(MaxToggles)]_vars

\* The toggle handlers, over MaxCalls requests, with a worker pool that keeps
\* running: a worker step that can be taken is taken in the end
\* (asynqServer.Run, main.go 383-387).
FairSpec ==
    /\ Init /\ [][ToggleNext(MaxCalls)]_vars
    /\ WF_vars(WorkerDequeue)
    /\ \A id \in JobIDs :
         /\ WF_vars(WorkerEmbed(id))
         /\ WF_vars(WorkerWrite(id))
         /\ WF_vars(WorkerFlip(id))

(***************************************************************************)
(* Properties.                                                             *)
(***************************************************************************)
\* The post is READY: chat is open and the embeddings are marked ready.
Ready(p) == posts[p].AIChatOpen /\ posts[p].AIReady

\* Goroutine t takes a step of the handler it runs.
Steps(t) == thr[t].pc # "idle" /\ thr'[t] # thr[t]

\* Goroutine t's handler returns in this step; last' is then its request.
Returns(t) == Steps(t) /\ thr'[t].pc = "idle"

\* DisableOpenAIMode for p has persisted the flags and not yet deleted the chunks.
DisableSection(p) ==
    \E t \in Threads : thr[t].op = "disable" /\ thr[t].post = p /\ thr[t].pc = "delete"

\* A worker has written p's chunks and not yet flipped p's flags.
WorkerSection(p) == \E k \in wrk : k.pc = "flip" /\ k.job.post = p

\* A worker writes p's chunks or flips p's flags in this step.
WorkerStep(p) ==
    \E k \in wrk :
        /\ k.pc \in {"write", "flip"} /\ k.job.post = p
        /\ k \notin wrk'

\* DisableOpenAIMode persists p's flags or deletes p's chunks in this step.
DisableStep(p) ==
    \E t \in Threads :
        /\ thr[t].op = "disable" /\ thr[t].post = p
        /\ thr[t].pc \in {"update", "delete"}
        /\ Steps(t)

\* C1: in every reachable state, a post whose EmbeddingsReady flag is true has
\* at least one chunk+vector pair stored.
C1_ReadyHasChunks == \A p \in Existing : posts[p].AIReady => chunks[p] # {}

\* C2: the worker neither writes a post's chunks nor flips its flags between
\* DisableOpenAIMode's Update and its DeleteEmbeddingsByPostID for that post,
\* and DisableOpenAIMode neither persists the flags nor deletes the chunks
\* between the worker's chunk write and its flag flip.
C2_Exclusive ==
    [][\A p \in Existing :
          /\ DisableSection(p) => ~WorkerStep(p)
          /\ WorkerSection(p) => ~DisableStep(p)]_vars

\* C3: a step of OpenAIMode or DisableOpenAIMode called by a user who is not
\* the post's author changes neither the posts, the chunks nor the queue, and
\* the handler returns after its lookup, with (false, nil) once the lookup
\* itself succeeded.
C3_NonAuthorNoop ==
    [][\A t \in Threads :
          (/\ Steps(t)
           /\ thr[t].op \in {"enable", "disable"}
           /\ thr[t].post \in Existing
           /\ posts[thr[t].post].AuthorID # thr[t].user)
          => /\ UNCHANGED dbvars
             /\ Returns(t)
             /\ last'.res.err # "GetByID" => last'.res = Ret(FALSE, "nil")]_vars

C3_Witness ==
    /\ last.op = "disable"
    /\ last.snap.exists /\ last.snap.AIChatOpen /\ last.snap.AIReady
    /\ last.user # last.snap.AuthorID
    /\ last.res = Ret(FALSE, "nil")
    /\ \E p \in Existing : Ready(p) /\ chunks[p] # {}

\* C4: OpenAIMode whose lookup finds the post's chat already open returns
\* (false, nil) in that step and leaves the queue, the posts and the chunks
\* as they are.
C4_EnableWhenOpenNoop ==
    [][\A t \in Threads :
          (/\ Steps(t)
           /\ thr[t].op = "enable"
           /\ thr[t].pc = "get"
           /\ thr[t].post \in Existing
           /\ posts[thr[t].post].AIChatOpen)
          => /\ UNCHANGED dbvars
             /\ Returns(t)
             /\ last'.res.err # "GetByID" => last'.res = Ret(FALSE, "nil")]_vars

C4_Witness ==
    /\ last.op = "enable"
    /\ last.snap.exists /\ last.snap.AIChatOpen
    /\ last.user = last.snap.AuthorID
    /\ last.res = Ret(FALSE, "nil")

\* C5: no step of OpenAIMode changes a post's flags or a chunk; the step in
\* which it returns (true, nil) appends exactly one job, for its post and its
\* user, to the queue, and is taken only by the author of an existing post
\* whose chat was not open; every other step leaves the queue as it is.
C5_EnableEnqueuesOnly ==
    [][\A t \in Threads :
          (Steps(t) /\ thr[t].op = "enable")
          => /\ UNCHANGED <<posts, chunks>>
             /\ IF Returns(t) /\ last'.res = Ret(TRUE, "nil")
                THEN /\ queue' = Append(queue, [id |-> nextJob, post |-> thr[t].post,
                                                user |-> thr[t].user, attempt |-> 0])
                     /\ last'.snap.exists /\ ~last'.snap.AIChatOpen
                     /\ last'.snap.AuthorID = last'.user
                ELSE queue' = queue
             /\ (thr[t].pc = "enqueue" /\ queue' # queue) => last'.res = Ret(TRUE, "nil")]_vars

C5_Witness ==
    /\ last.op = "enable"
    /\ last.res = Ret(TRUE, "nil")
    /\ Len(queue) = 1 /\ queue[1].post = last.post
    /\ ~posts[last.post].AIChatOpen /\ ~posts[last.post].AIReady

\* C6: DisableOpenAIMode deletes chunks only in the step after its Update
\* succeeded; it reaches that step only by persisting both flags false, an
\* Update that fails ends the call with no chunk deleted, and (true, nil) is
\* returned only by the step that deleted all the post's chunks.
C6_UpdateThenDelete ==
    [][\A t \in Threads :
          (Steps(t) /\ thr[t].op = "disable")
          => LET p == thr[t].post IN
             /\ chunks' # chunks => thr[t].pc = "delete"
             /\ thr'[t].pc = "delete"
                  => /\ thr[t].pc = "update"
                     /\ ~posts'[p].AIChatOpen /\ ~posts'[p].AIReady
             /\ (thr[t].pc = "update" /\ Returns(t))
                  => /\ last'.res = Ret(FALSE, "Update")
                     /\ UNCHANGED <<posts, chunks>>
             /\ (Returns(t) /\ last'.res = Ret(TRUE, "nil"))
                  => /\ thr[t].pc = "delete"
                     /\ chunks'[p] = {}
                     /\ posts' = posts]_vars

C6_Witness ==
    /\ last.op = "disable"
    /\ last.res = Ret(TRUE, "nil")
    /\ last.log = <<"GetByID", "Update", "DeleteEmbeddings">>
    /\ last.pre # {}
    /\ chunks[last.post] = {}
    /\ ~posts[last.post].AIChatOpen /\ ~posts[last.post].AIReady

\* C7: when DisableOpenAIMode's chunk deletion fails (the chunks are still
\* there after the step), the call returns the deletion's error, not success,
\* and writes no post: the flags it persisted, both false, are not rolled back.
C7_DeleteFailureNoRollback ==
    [][\A t \in Threads :
          (/\ Steps(t)
           /\ thr[t].pc = "delete"
           /\ chunks[thr[t].post] # {}
           /\ chunks'[thr[t].post] # {})
          => /\ Returns(t)
             /\ last'.res = Ret(FALSE, "DeleteEmbeddings")
             /\ posts' = posts
             /\ ~last'.snap.AIChatOpen /\ ~last'.snap.AIReady]_vars

C7_Witness ==
    /\ last.op = "disable"
    /\ last.res = Ret(FALSE, "DeleteEmbeddings")
    /\ ~posts[last.post].AIChatOpen /\ ~posts[last.post].AIReady
    /\ chunks[last.post] # {}

\* C8: once DisableOpenAIMode has returned and an OpenAIMode that began after
\* it has enqueued a job, a post that is READY again holds no chunk that was
\* stored before the DisableOpenAIMode.
C8_FreshChunks ==
    \A p \in Existing :
        (hist[p].phase = "reenabled" /\ Ready(p)) => chunks[p] \cap hist[p].pre = {}

\* C9: a ChatStream whose lookup finds no post, or a post whose chat is not
\* open, has returned an error with no onChunk call, and GetByID is the only
\* call it made: no embedding, no chunk retrieval, no generation.
AskRefused(r) ==
    /\ r.pc = "done"
    /\ ~r.res.ok /\ r.res.err = "post not found or AI not enabled"
    /\ r.frags = <<>>
    /\ r.log = <<"GetByID">>

C9_AskRefused ==
    \A r \in {thr[t] : t \in Threads} \cup {last} :
        (r.op = "ask" /\ r.log # <<>> /\ ~(r.snap.exists /\ r.snap.AIChatOpen))
        => AskRefused(r)

C9_Witness ==
    /\ last.op = "ask"
    /\ last.snap.exists /\ ~last.snap.AIChatOpen
    /\ AskRefused(last)

\* The onChunk arguments the lines ls stand for, in the order of the lines.
RECURSIVE Fragments(_)
Fragments(ls) ==
    IF ls = <<>> THEN <<>>
    ELSE (IF Head(ls).frag = "none" THEN <<>> ELSE <<Head(ls).frag>>) \o Fragments(Tail(ls))

\* C10: at every point of StreamAIResponse's loop the onChunk calls made so far
\* are, one each and in arrival order, the fragments of the lines read so far
\* that carry the marker and a JSON object with a text in a message object; no
\* other line makes a call or ends the loop: the loop ends only when every
\* line of the body has been read.
C10_FragmentsInOrder ==
    /\ strm.pc \in {"read", "done"} => strm.out = Fragments(strm.read)
    /\ (strm.pc = "done" /\ strm.ret = "nil") => strm.lines = <<>>

C10_Witness ==
    /\ strm.pc = "done"
    /\ Len(strm.read) = 3
    /\ strm.read[1].bytes = DataMarker \o <<"{\"message\":">> \o NL
    /\ strm.read[2].bytes = DataMarker \o DoneSentinel \o NL
    /\ strm.read[3].frag # "none"
    /\ strm.out = <<strm.read[3].frag>>

\* C11: StreamAIResponse calls onChunk only for a payload whose message text
\* is not empty: no onChunk argument is the encoding of the empty text.
C11_NoEmptyFragment ==
    \A i \in 1..Len(strm.out) : strm.out[i] # MarshalText("")

\* Where the scored chunk c stood in the stored order.
Pos(c) == CHOOSE i \in 1..Len(rtv.scored) : rtv.scored[i] = c

\* Chunk c comes before chunk d in the stable descending order.
Before(c, d) == c.Score > d.Score \/ (c.Score = d.Score /\ Pos(c) < Pos(d))

\* C12: the chunks the retrieval selects are in descending score order with
\* chunks of equal score in their stored order, and they are the first of
\* that order, so the selection is fixed by the chunk list and the scores.
C12_StableDescending ==
    rtv.pc = "done" =>
        /\ \A i, j \in 1..Len(rtv.top) : i < j => Before(rtv.top[i], rtv.top[j])
        /\ \A i \in 1..Len(rtv.top), m \in 1..Len(rtv.scored) :
             (\A j \in 1..Len(rtv.top) : rtv.top[j] # rtv.scored[m])
             => Before(rtv.top[i], rtv.scored[m])

\* C13: for a post with n stored chunks the context is built from exactly
\* min(3, n) of them, each a different stored chunk, their texts joined by
\* the blank-line separator; with n = 0 the context is the fallback sentence;
\* the context is never the empty string.
C13_ContextFromTopChunks ==
    rtv.pc = "done" =>
        LET n == Len(rtv.scored)
            k == IF n < 3 THEN n ELSE 3 IN
        /\ Len(rtv.top) = k
        /\ \A i \in 1..k : \E m \in 1..n : rtv.top[i] = rtv.scored[m]
        /\ \A i, j \in 1..k : i # j => rtv.top[i] # rtv.top[j]
        /\ n = 0 => rtv.ctx = FallbackContext
        /\ n > 0 =>
             /\ Len(rtv.ctx) = 2 * k - 1
             /\ \A i \in 1..k : <<rtv.ctx[2 * i - 1]>> = rtv.top[i].Text
             /\ \A i \in 1..(k - 1) : rtv.ctx[2 * i] = "\n\n"
        /\ rtv.ctx # <<>>

C13_Witness ==
    /\ rtv.pc = "done"
    /\ Len(rtv.scored) = 5
    /\ Len(rtv.top) = 3
    /\ rtv.ctx = rtv.top[1].Text \o <<"\n\n">> \o rtv.top[2].Text \o <<"\n\n">> \o rtv.top[3].Text

\* The onChunk calls made before a step are still the first calls after it.
FragmentsStand ==
    /\ Len(strm'.out) >= Len(strm.out)
    /\ SubSeq(strm'.out, 1, Len(strm.out)) = strm.out

\* C14: when the connection fails StreamAIResponse returns the error with no
\* line read and no onChunk call; once the loop runs, it ends only at the end
\* of the stream or a read error, and when at least one fragment was
\* delivered by then StreamAIResponse returns no error; no step takes back a
\* fragment already delivered.
C14_ErrorOnlyBeforeLoop ==
    [][/\ FragmentsStand
       /\ (strm.pc = "post" /\ strm'.pc = "done") =>
             /\ strm'.ret = "http.Post"
             /\ strm'.read = <<>> /\ strm'.out = <<>>
       /\ (strm.pc = "read" /\ strm'.pc = "done") =>
             /\ strm.lines = <<>>
             /\ strm'.out = strm.out
             /\ Len(strm.out) >= 1 => strm'.ret = "nil"
       /\ strm'.ret = "http.Post" => strm.pc = "post"]_vars

C14_Witness ==
    /\ strm.pc = "done"
    /\ strm.ret = "nil"
    /\ strm.tail # <<>>
    /\ Len(strm.read) = 2
    /\ Len(strm.out) = 1

\* The exchange is there, names its user and its post, and has a prompt and
\* a response.
Complete(chat) ==
    /\ ~chat.isNil
    /\ chat.UserID # UuidNil /\ chat.PostID # UuidNil
    /\ chat.Prompt # "" /\ chat.Response # ""

\* C15: CreateChat hands the exchange to the repository exactly when it is
\* non-nil, has both identities and has a non-empty prompt and a non-empty
\* response, and the exchange is stored exactly when the repository then
\* succeeds; a nil exchange, a missing identity and an empty prompt or
\* response each return their own error with the repository not called and
\* nothing stored; every stored exchange is complete.
C15_PersistIffValid ==
    [][(svc'.call.op = "CreateChat" /\ svc' # svc) =>
         LET chat == svc'.call.chat
             err == svc'.call.err IN
         /\ Complete(chat) <=> svc'.repo = Append(svc.repo, chat)
         /\ ~Complete(chat) =>
              /\ svc'.repo = svc.repo /\ svc'.saved = svc.saved
              /\ chat.isNil => err = "chat cannot be nil"
              /\ (~chat.isNil /\ (chat.UserID = UuidNil \/ chat.PostID = UuidNil))
                   => err = "chat must have UserID and PostID"
              /\ (~chat.isNil /\ chat.UserID # UuidNil /\ chat.PostID # UuidNil)
                   => err = "chat must have Prompt and Response"
         /\ Complete(chat) =>
              /\ err \in {"nil", "AIRepo.CreateChat"}
              /\ err = "nil" => svc'.saved = Append(svc.saved, chat)
              /\ err # "nil" => svc'.saved = svc.saved
         /\ \A i \in 1..Len(svc'.saved) : Complete(svc'.saved[i])]_vars

C15_Witness ==
    /\ svc.call.op = "CreateChat"
    /\ svc.call.chat.Prompt = "q" /\ svc.call.chat.Response = ""
    /\ svc.call.chat.UserID = "u1" /\ svc.call.chat.PostID = "p1"
    /\ svc.call.err = "chat must have Prompt and Response"
    /\ Len(svc.saved) = 1
    /\ svc.repo = svc.saved

\* C17: ClassifyContent returns an error and no label for the empty message
\* and whenever the classifier gives the unknown intent; for every other
\* message it returns the classifier's label and no error; the unknown label
\* is never a successful result.
C17_ClassifyNeverUnknown ==
    svc.call.op = "ClassifyContent" =>
        LET c == svc.call IN
        /\ c.message = "" => (c.err = "message cannot be empty" /\ c.label = "")
        /\ (c.message # "" /\ c.intent = IntentUnknown)
             => (c.err = "unknown message type" /\ c.label = "")
        /\ (c.message # "" /\ c.intent # IntentUnknown)
             => (c.err = "nil" /\ c.label = c.intent)
        /\ c.err = "nil" => c.label # IntentUnknown

C17_Witness ==
    /\ svc.call.op = "ClassifyContent"
    /\ svc.call.message = "hello"
    /\ svc.call.intent = IntentUnknown
    /\ svc.call.err = "unknown message type"
    /\ svc.call.label = ""

\* C16: once the caller has signalled cancellation during a StreamAIResponse
\* call in flight, the loop reads no further line and makes no further
\* onChunk call.
C16_CancelStopsDelivery ==
    [][strm.cancelled => (strm'.read = strm.read /\ strm'.out = strm.out)]_vars

\* C18: a ChatStream call is past its check, at the question's embedding, the
\* retrieval or the generation, only while its post is READY, and a call
\* whose lookup found the post not READY is refused.
C18_AskOnlyWhenReady ==
    /\ \A t \in Threads :
         (thr[t].op = "ask" /\ thr[t].pc \in {"embed", "retrieve", "generate", "read"})
         => Ready(thr[t].post)
    /\ \A r \in {thr[t] : t \in Threads} \cup {last} :
         (r.op = "ask" /\ r.log # <<>>
            /\ ~(r.snap.exists /\ r.snap.AIChatOpen /\ r.snap.AIReady))
         => AskRefused(r)

\* The embedding jobs of post p that wait in the queue or are with a worker.
QueuedFor(p) == {i \in 1..Len(queue) : queue[i].post = p}
RunningFor(p) == {k \in wrk : k.job.post = p}
JobsFor(p) == Cardinality(QueuedFor(p)) + Cardinality(RunningFor(p))

\* C19: at most one embedding job is outstanding per post.
C19_OneJobPerPost == \A p \in Existing : JobsFor(p) <= 1

\* The post waits for its embeddings: not READY, a job outstanding.
Pending(p) == ~Ready(p) /\ JobsFor(p) > 0

\* The post is DISABLED: both flags false and no job left.
Disabled(p) == ~posts[p].AIChatOpen /\ ~posts[p].AIReady /\ JobsFor(p) = 0

\* A worker gives up a job whose attempts are used up.
Exhausts(id) ==
    \E k \in wrk :
        /\ k.job.id = id /\ k.pc = "embed"
        /\ k.job.attempt + 1 >= MaxAttempts
        /\ \A k2 \in wrk' : k2.job.id # id

\* C20: with workers that keep running, a post that waits for its embeddings
\* stops waiting: it becomes READY, or it is DISABLED with both flags false
\* and no job left.  A job given up after its last attempt is dropped with
\* the post's flags as they were, and a post becomes READY only by the flip
\* of a worker whose job succeeded.
C20_PendingEnds ==
    /\ \A p \in Existing : Pending(p) ~> (Ready(p) \/ Disabled(p))
    /\ [][\A id \in JobIDs : Exhausts(id) => (posts' = posts /\ queue' = queue)]_vars
    /\ [][\A p \in Existing : (~Ready(p) /\ Ready(p)') => WorkerSection(p)]_vars

C20_Witness ==
    /\ calls = 1
    /\ nextJob = 2
    /\ Disabled("p1")
    /\ \A t \in Threads : thr[t].pc = "idle"

====
